---- MODULE Spec2Model ----
(***************************************************************************)
(* Prospect identity normalisation, duplicate / suppression resolution and *)
(* the prospect lifecycle of the lead-generation backend.                  *)
(*                                                                         *)
(* src/index.js holds two generations of the server one after the other;   *)
(* the model follows the current one (lines 846-2608) and src/db.js.       *)
(*                                                                         *)
(* Strings are sequences of one-character strings, so that trimming,       *)
(* lower-casing, whitespace collapsing and key concatenation are computed  *)
(* and not assumed.  A JavaScript null / undefined is the value Null.      *)
(***************************************************************************)
EXTENDS Integers, Sequences, FiniteSets, TLC

\* ------------------------------------------------------------------------
\* Strings
\* ------------------------------------------------------------------------

\* JavaScript null / undefined; no string of the model contains this token.
Null == <<"NULL">>

\* JavaScript truthiness of a string-or-null value.
Truthy(s) == s # Null /\ s # <<>>

\* The whitespace of trim() and of \s the model uses: space and tab.
IsSpace(c) == c \in {" ", "\t"}

\* String.prototype.toLowerCase on one character of the model's alphabet.
LowerChar(c) ==
  CASE c = "A" -> "a"
    [] c = "B" -> "b"
    [] c = "C" -> "c"
    [] c = "D" -> "d"
    [] c = "H" -> "h"
    [] c = "J" -> "j"
    [] c = "O" -> "o"
    [] c = "W" -> "w"
    [] OTHER -> c

ToLowerCase(s) == [i \in 1..Len(s) |-> LowerChar(s[i])]

RECURSIVE TrimStart(_)
TrimStart(s) ==
  IF s = <<>> THEN <<>>
  ELSE IF IsSpace(Head(s)) THEN TrimStart(Tail(s)) ELSE s

RECURSIVE TrimEnd(_)
TrimEnd(s) ==
  IF s = <<>> THEN <<>>
  ELSE IF IsSpace(s[Len(s)]) THEN TrimEnd(SubSeq(s, 1, Len(s) - 1)) ELSE s

\* A trim that drops at most one whitespace character at each end.
TrimOnce(s) ==
  LET front == IF s # <<>> /\ IsSpace(Head(s)) THEN Tail(s) ELSE s
  IN  IF front # <<>> /\ IsSpace(front[Len(front)])
      THEN SubSeq(front, 1, Len(front) - 1)
      ELSE front

\* String.prototype.trim
Trim(s) == TrimEnd(TrimStart(s))

\* s.replace(/\s+/g, ' '): every run of whitespace becomes one space.
RECURSIVE CollapseSpaces(_)
CollapseSpaces(s) ==
  IF s = <<>> THEN <<>>
  ELSE IF IsSpace(Head(s))
       THEN <<" ">> \o CollapseSpaces(TrimStart(s))
       ELSE <<Head(s)>> \o CollapseSpaces(Tail(s))

\* String.prototype.startsWith
StartsWith(s, p) == Len(s) >= Len(p) /\ SubSeq(s, 1, Len(p)) = p

\* Index of the first character of s that lies in the set cs, 0 when none.
RECURSIVE IndexOfAny(_, _, _)
IndexOfAny(s, cs, i) ==
  IF i > Len(s) THEN 0
  ELSE IF s[i] \in cs THEN i ELSE IndexOfAny(s, cs, i + 1)

\* s.replace(/^www\./i, '')
StripWww(s) ==
  IF StartsWith(ToLowerCase(s), <<"w", "w", "w", ".">>)
  THEN SubSeq(s, 5, Len(s))
  ELSE s

\* ------------------------------------------------------------------------
\* Identity normaliser
\* ------------------------------------------------------------------------

normalizeEmail(email) ==
  IF ~Truthy(email) THEN Null
  ELSE LET trimmed == ToLowerCase(Trim(email))
       IN  IF trimmed = <<>> THEN Null ELSE trimmed

normalizeName(name) ==
  IF ~Truthy(name) THEN Null
  ELSE LET trimmed == CollapseSpaces(ToLowerCase(Trim(name)))
       IN  IF trimmed = <<>> THEN Null ELSE trimmed

\* new URL(url).hostname for the URLs of the model: a scheme up to the
\* first ":", then for http / https the slashes, then the host up to the
\* first of "/", "?", "#", ":".  Null stands for the TypeError thrown on a
\* URL without a scheme or with an empty host or a space in the host, and
\* for the empty hostname of a non-special scheme.  The websites of the
\* model carry no user-info, IPv6 literal or non-ASCII host.
RECURSIVE SkipSlashes(_)
SkipSlashes(s) ==
  IF s = <<>> THEN <<>>
  ELSE IF Head(s) \in {"/", "\\"} THEN SkipSlashes(Tail(s)) ELSE s

UrlHostname(url) ==
  LET colon == IndexOfAny(url, {":"}, 1)
  IN  IF colon = 0 THEN Null
      ELSE LET scheme == ToLowerCase(SubSeq(url, 1, colon - 1))
               rest   == SkipSlashes(SubSeq(url, colon + 1, Len(url)))
               stop   == IndexOfAny(rest, {"/", "?", "#", ":"}, 1)
               host   == IF stop = 0 THEN rest ELSE SubSeq(rest, 1, stop - 1)
           IN  IF scheme \notin {<<"h", "t", "t", "p">>, <<"h", "t", "t", "p", "s">>}
               THEN Null
               ELSE IF host = <<>> \/ IndexOfAny(host, {" "}, 1) # 0
                    THEN Null
                    ELSE ToLowerCase(host)

\* email.split('@')[1]: the text between the first and the second "@".
SplitAt1(email) ==
  LET first == IndexOfAny(email, {"@"}, 1)
      rest  == SubSeq(email, first + 1, Len(email))
      nxt   == IndexOfAny(rest, {"@"}, 1)
  IN  IF nxt = 0 THEN rest ELSE SubSeq(rest, 1, nxt - 1)

DomainFromEmail(email) ==
  IF Truthy(email) /\ IndexOfAny(email, {"@"}, 1) # 0
  THEN LET domainPart == Trim(SplitAt1(email))
       IN  IF domainPart # <<>> THEN ToLowerCase(StripWww(domainPart)) ELSE Null
  ELSE Null

extractDomainFromWebsiteOrEmail(website, email) ==
  LET value == IF Truthy(website) THEN Trim(website) ELSE <<>>
      url   == IF StartsWith(value, <<"h", "t", "t", "p">>)
               THEN value
               ELSE <<"h", "t", "t", "p", "s", ":", "/", "/">> \o value
      parsed == IF value = <<>> THEN Null ELSE UrlHostname(url)
      host  == IF parsed = Null THEN <<>> ELSE StripWww(parsed)
  IN  IF host # <<>> THEN ToLowerCase(host) ELSE DomainFromEmail(email)

\* ------------------------------------------------------------------------
\* Bounds and inputs
\* ------------------------------------------------------------------------

\* Identifiers generateId can hand out in one behaviour.
MaxIds == 2
\* Longest bulk-import payload.
MaxBatch == 2
\* Notes that can be written in one behaviour.
MaxNotes == 1

\* generateId(prefix): `${prefix}_${timestamp}_${random}`; n stands for the
\* timestamp and the random part, and is fresh at every call.
generateId(prefix, n) == <<prefix, n>>

\* The ids a request can name: every id the server may have issued.
Ids == {generateId("pros", n) : n \in 1..MaxIds}

\* datetime('now') as read by one statement.
Times == {"t1"}
NoTime == "NULL"

\* The sourceId path parameter of the bulk import.
Sources == {<<"s1">>}

\* Words of the status and origin columns, one symbol each.
Uncontacted == <<"uncontacted">>
Contacted == <<"contacted">>
Qualified == <<"qualified">>
BadFit == <<"bad-fit">>
Manual == <<"manual">>
Purchased == <<"purchased">>

\* Request bodies.  Fields the handlers only copy (role, phone, tags,
\* ownerName) are left out.
Body(companyName, contactName, email, website, status, origin) ==
  [companyName |-> companyName, contactName |-> contactName, email |-> email,
   website |-> website, status |-> status, origin |-> origin]

\* "a@b.c", contact "J o"
CandAnn ==
  Body(<<"C">>, <<"J", " ", "o">>, <<"a", "@", "b", ".", "c">>, Null, Null, Null)
\* "A@B.c " (mixed case, padded), no contact name
CandAnnPadded ==
  Body(Null, Null, <<"A", "@", "B", ".", "c", " ">>, Null, Null, Null)
\* "d@b.c", contact " J O": another email, Ann's domain and name
CandDan ==
  Body(Null, <<" ", "J", " ", "O">>, <<"d", "@", "b", ".", "c">>, Null,
       <<" ", "qualified">>, <<"x", " ">>)
\* no email, website "www.B.c", contact "j   O ": Ann's domain and name
CandNoEmail ==
  Body(Null, <<"j", " ", " ", " ", "O", " ">>, Null,
       <<"w", "w", "w", ".", "B", ".", "c">>, Null, Null)
\* company name only, and a status outside the enum
CandCompanyOnly ==
  Body(<<"C">>, Null, Null, Null, <<"bogus">>, <<" ">>)
\* nothing usable: empty and blank strings
CandBlank ==
  Body(<<>>, <<" ">>, <<>>, Null, Null, Null)

Candidates ==
  {CandAnn, CandAnnPadded, CandDan, CandNoEmail, CandCompanyOnly, CandBlank}

\* "y@a", contact "b:c"
CandColonName ==
  Body(Null, <<"b", ":", "c">>, <<"y", "@", "a">>, Null, Null, Null)
\* "x@a:b", contact "c": another email, another domain, another name
CandColonDomain ==
  Body(Null, <<"c">>, <<"x", "@", "a", ":", "b">>, Null, Null, Null)

\* The request bodies of the intake runs: the two above next to bodies with
\* a full key, with a company name only and with nothing usable.
IntakeCandidates ==
  {CandAnn, CandColonName, CandColonDomain, CandCompanyOnly, CandBlank}

RECURSIVE SeqsUpTo(_, _)
SeqsUpTo(S, n) ==
  IF n = 0 THEN {<<>>}
  ELSE LET shorter == SeqsUpTo(S, n - 1)
       IN  shorter \cup {Append(p, c) : p \in shorter, c \in S}

\* The prospects arrays a bulk import is called with.
Payloads == SeqsUpTo(Candidates, MaxBatch)

\* The prospects arrays of the intake runs.
IntakePayloads == SeqsUpTo(IntakeCandidates, MaxBatch)

\* Values of the status field of PATCH /prospects/:id.
PatchStatuses == {Null, Contacted, <<"bogus">>}

\* Values of the content field of POST /prospects/:id/notes.
NoteContents == {<<" ">>, <<"n">>}

\* ------------------------------------------------------------------------
\* State
\* ------------------------------------------------------------------------

VARIABLES
  prospects,   \* the rows of table prospects
  notes,       \* the rows of table prospect_notes
  nextId,      \* ids handed out so far, plus one
  nextNoteId,  \* note ids handed out so far, plus one
  resp,        \* the response sent last
  optedOut,    \* history: the identity keys suppressed and not unsuppressed since
  inflight,    \* the requests between two of their storage steps
  overlapped,  \* history: a request read the table while another was in flight
  probe        \* a string handed to the normalisers, and who touched it last

vars ==
  <<prospects, notes, nextId, nextNoteId, resp, optedOut, inflight, overlapped, probe>>

\* op: the route that answered; code: the HTTP status; inserted: the ids of
\* the rows of a 201 body; existingId: the existingId of a 409 body;
\* headers: the response headers the handler sets (none does).
Response(op, code, inserted, existingId) ==
  [op |-> op, code |-> code, inserted |-> inserted, existingId |-> existingId,
   headers |-> {}]

\* sqlite3.Database(dbPath) opens the connection and no statement of the
\* server issues PRAGMA foreign_keys = ON, so SQLite leaves foreign-key
\* enforcement, and with it ON DELETE CASCADE, switched off.
ForeignKeysEnabled == FALSE

\* No string is under test.
NoProbe == [text |-> Null, by |-> "none"]

Init ==
  /\ prospects = {}
  /\ notes = {}
  /\ nextId = 1
  /\ nextNoteId = 1
  /\ resp = Response("none", 0, {}, Null)
  /\ optedOut = {}
  /\ inflight = {}
  /\ overlapped = FALSE
  /\ probe = NoProbe

\* ------------------------------------------------------------------------
\* Duplicate / suppression resolver
\* ------------------------------------------------------------------------

\* SELECT ... WHERE normalizedEmail = ?
EmailMatches(table, ne) == {r \in table : r.normalizedEmail = ne}

\* SELECT ... WHERE normalizedDomain = ? AND normalizedContactName = ?
DomainNameMatches(table, nd, nn) ==
  {r \in table : r.normalizedDomain = nd /\ r.normalizedContactName = nn}

\* checkDuplicateProspect with "AND archivedAt IS NULL" in its SELECTs.
checkDuplicateProspectUnarchived(table, ne, nd, nn) ==
  LET kept == {r \in table : r.archivedAt = NoTime}
  IN  IF Truthy(ne)
      THEN IF EmailMatches(kept, ne) # {}
           THEN EmailMatches(kept, ne)
           ELSE IF Truthy(nd) /\ Truthy(nn)
                THEN DomainNameMatches(kept, nd, nn)
                ELSE {}
      ELSE IF Truthy(nd) /\ Truthy(nn)
           THEN DomainNameMatches(kept, nd, nn)
           ELSE {}

\* checkDuplicateProspect with "AND suppressedAt IS NULL" in its SELECTs.
checkDuplicateProspectLive(table, ne, nd, nn) ==
  LET live == {r \in table : r.suppressedAt = NoTime}
  IN  IF Truthy(ne)
      THEN IF EmailMatches(live, ne) # {}
           THEN EmailMatches(live, ne)
           ELSE IF Truthy(nd) /\ Truthy(nn)
                THEN DomainNameMatches(live, nd, nn)
                ELSE {}
      ELSE IF Truthy(nd) /\ Truthy(nn)
           THEN DomainNameMatches(live, nd, nn)
           ELSE {}

\* The rows checkDuplicateProspect can resolve with ({} for null): LIMIT 1
\* returns any one row of the matching ones.
checkDuplicateProspect(table, ne, nd, nn) ==
  IF Truthy(ne)
  THEN IF EmailMatches(table, ne) # {}
       THEN EmailMatches(table, ne)
       ELSE IF Truthy(nd) /\ Truthy(nn)
            THEN DomainNameMatches(table, nd, nn)
            ELSE {}
  ELSE IF Truthy(nd) /\ Truthy(nn)
       THEN DomainNameMatches(table, nd, nn)
       ELSE {}

\* `email:${normalizedEmail}`
EmailKey(ne) == <<"email:">> \o ne

\* `dn:${normalizedDomain}:${normalizedContactName}`
DomainKey(nd, nn) == <<"dn:">> \o nd \o <<":">> \o nn

\* The keys one snapshot row contributes to existingLookup.
RowKeys(r) ==
  (IF Truthy(r.normalizedEmail) THEN {EmailKey(r.normalizedEmail)} ELSE {})
  \cup
  (IF Truthy(r.normalizedDomain) /\ Truthy(r.normalizedContactName)
   THEN {DomainKey(r.normalizedDomain, r.normalizedContactName)} ELSE {})

\* existingLookup built without the email keys.
ExistingLookupDomainOnly(table) ==
  UNION {RowKeys(r) \ {EmailKey(r.normalizedEmail)} : r \in table}

\* The key set of existingLookup after the snapshot loop.
ExistingLookup(table) == UNION {RowKeys(r) : r \in table}

\* suppressedLookup after the snapshot loop.
SuppressedLookup(table) ==
  UNION {RowKeys(r) : r \in {x \in table : x.suppressedAt # NoTime}}

\* ------------------------------------------------------------------------
\* Rows
\* ------------------------------------------------------------------------

\* x || null
OrNull(x) == IF Truthy(x) THEN x ELSE Null

\* The three derived identity fields of every request body of the model,
\* computed once.
Normalized ==
  [raw \in Candidates \cup IntakeCandidates |->
     [normalizedEmail |-> normalizeEmail(raw.email),
      normalizedDomain |-> extractDomainFromWebsiteOrEmail(raw.website, raw.email),
      normalizedContactName |-> normalizeName(raw.contactName)]]

NormalizedEmailOf(raw) == Normalized[raw].normalizedEmail
NormalizedDomainOf(raw) == Normalized[raw].normalizedDomain
NormalizedContactNameOf(raw) == Normalized[raw].normalizedContactName

\* The origin column without the two trim calls: origin ? origin : dflt.
OriginValueAsSent(origin, dflt) ==
  IF Truthy(origin) THEN origin ELSE dflt

\* origin && typeof origin === 'string' && origin.trim() ? origin.trim() : dflt
OriginValue(origin, dflt) ==
  IF Truthy(origin) /\ Trim(origin) # <<>> THEN Trim(origin) ELSE dflt

\* A single create that stores the email of the body, as sent, in
\* normalizedEmail.
SingleRowKeyedAsSent(id, raw, t) ==
  [id |-> id,
   sourceId |-> Null,
   companyName |-> OrNull(raw.companyName),
   contactName |-> OrNull(raw.contactName),
   email |-> OrNull(raw.email),
   website |-> OrNull(raw.website),
   status |-> IF Truthy(raw.status) THEN raw.status ELSE Uncontacted,
   archivedAt |-> NoTime,
   normalizedEmail |-> OrNull(raw.email),
   normalizedDomain |-> NormalizedDomainOf(raw),
   normalizedContactName |-> NormalizedContactNameOf(raw),
   origin |-> OriginValue(raw.origin, Manual),
   suppressedAt |-> NoTime,
   createdAt |-> t,
   updatedAt |-> NoTime,
   lastContactedAt |-> NoTime]

\* The row POST /prospects inserts.
SingleRow(id, raw, t) ==
  [id |-> id,
   sourceId |-> Null,
   companyName |-> OrNull(raw.companyName),
   contactName |-> OrNull(raw.contactName),
   email |-> OrNull(raw.email),
   website |-> OrNull(raw.website),
   status |-> IF Truthy(raw.status) THEN raw.status ELSE Uncontacted,
   archivedAt |-> NoTime,
   normalizedEmail |-> NormalizedEmailOf(raw),
   normalizedDomain |-> NormalizedDomainOf(raw),
   normalizedContactName |-> NormalizedContactNameOf(raw),
   origin |-> OriginValue(raw.origin, Manual),
   suppressedAt |-> NoTime,
   createdAt |-> t,
   updatedAt |-> NoTime,
   lastContactedAt |-> NoTime]

\* typeof status === 'string' && status.trim() !== '' ? status.trim()
\*                                                    : 'uncontacted'
FinalStatus(status) ==
  IF status # Null /\ Trim(status) # <<>> THEN Trim(status) ELSE Uncontacted

\* The bulk import writing its rows the way the single create does: no
\* sourceId, origin 'manual' by default, status untrimmed.
BulkRowLikeSingle(id, sourceId, raw, t) == SingleRow(id, raw, t)

\* The row the bulk import inserts for an admitted payload row (x ?? null
\* keeps an empty string).
BulkRow(id, sourceId, raw, t) ==
  [id |-> id,
   sourceId |-> OrNull(sourceId),
   companyName |-> raw.companyName,
   contactName |-> raw.contactName,
   email |-> raw.email,
   website |-> raw.website,
   status |-> FinalStatus(raw.status),
   archivedAt |-> NoTime,
   normalizedEmail |-> NormalizedEmailOf(raw),
   normalizedDomain |-> NormalizedDomainOf(raw),
   normalizedContactName |-> NormalizedContactNameOf(raw),
   origin |-> OriginValue(raw.origin, Purchased),
   suppressedAt |-> NoTime,
   createdAt |-> t,
   updatedAt |-> NoTime,
   lastContactedAt |-> NoTime]

\* ------------------------------------------------------------------------
\* Bulk-import filter
\* ------------------------------------------------------------------------

\* x && String(x).trim() !== ''
NonBlank(x) == Truthy(x) /\ Trim(x) # <<>>

\* hasIdentifier without its three tests: every row counts as identified.
hasIdentifierAlways(raw) == raw = raw

hasIdentifier(raw) ==
  NonBlank(raw.companyName) \/ NonBlank(raw.contactName) \/ NonBlank(raw.email)

\* keyEmail built without the test of normalizedEmail: a row without an
\* email gets the key of the null value.
KeyEmailUnchecked(raw) == {EmailKey(NormalizedEmailOf(raw))}

\* keyEmail and keyDomain of a payload row, as a set (an absent key adds
\* nothing).
KeyEmail(raw) ==
  IF Truthy(NormalizedEmailOf(raw)) THEN {EmailKey(NormalizedEmailOf(raw))} ELSE {}

KeyDomain(raw) ==
  IF Truthy(NormalizedDomainOf(raw)) /\ Truthy(NormalizedContactNameOf(raw))
  THEN {DomainKey(NormalizedDomainOf(raw), NormalizedContactNameOf(raw))}
  ELSE {}

\* duplicateKey without the two seen.has tests.
duplicateKeyWithoutSeen(raw, existing, seen) ==
  \/ KeyEmail(raw) \cap existing # {}
  \/ KeyDomain(raw) \cap existing # {}

duplicateKey(raw, existing, seen) ==
  \/ KeyEmail(raw) \cap existing # {}
  \/ KeyDomain(raw) \cap existing # {}
  \/ KeyEmail(raw) \cap seen # {}
  \/ KeyDomain(raw) \cap seen # {}

suppressedHit(raw, suppressed) ==
  \/ KeyEmail(raw) \cap suppressed # {}
  \/ KeyDomain(raw) \cap suppressed # {}

\* Whether the loop pushes payload row raw onto validProspects.
Admits(raw, existing, suppressed, seen) ==
  /\ hasIdentifier(raw)
  /\ ~(duplicateKey(raw, existing, seen) \/ suppressedHit(raw, suppressed))

\* The loop over the payload from row i on: the indices of the rows pushed
\* onto validProspects, in input order.
RECURSIVE FilterFrom(_, _, _, _, _)
FilterFrom(payload, i, existing, suppressed, seen) ==
  IF i > Len(payload) THEN <<>>
  ELSE IF Admits(payload[i], existing, suppressed, seen)
       THEN <<i>> \o FilterFrom(payload, i + 1, existing, suppressed,
                               seen \cup KeyEmail(payload[i]) \cup KeyDomain(payload[i]))
       ELSE FilterFrom(payload, i + 1, existing, suppressed, seen)

\* validProspects, as payload indices, for a snapshot of the table.
ValidIndices(snapshot, payload) ==
  FilterFrom(payload, 1, ExistingLookup(snapshot), SuppressedLookup(snapshot), {})

\* The rows the insert loop writes: the k-th admitted row gets the k-th new id.
BulkRows(sourceId, payload, valid, first, t) ==
  {BulkRow(generateId("pros", first + k - 1), sourceId, payload[valid[k]], t) :
     k \in 1..Len(valid)}

\* ------------------------------------------------------------------------
\* Requests, each handled from start to end with no other request between
\* its storage steps
\* ------------------------------------------------------------------------

\* getProspectById: the rows with this id (at most one, id is the key).
getProspectById(table, id) == {r \in table : r.id = id}

\* POST /prospects
CreateProspect(raw) ==
  LET existing == checkDuplicateProspect(prospects, NormalizedEmailOf(raw),
                    NormalizedDomainOf(raw), NormalizedContactNameOf(raw))
      id == generateId("pros", nextId)
  IN  /\ IF existing # {}
         THEN /\ \E e \in existing : resp' = Response("create", 409, {}, e.id)
              /\ UNCHANGED <<prospects, nextId>>
         ELSE /\ nextId <= MaxIds
              /\ \E t \in Times : prospects' = prospects \cup {SingleRow(id, raw, t)}
              /\ nextId' = nextId + 1
              /\ resp' = Response("create", 201, {id}, Null)
      /\ UNCHANGED <<notes, nextNoteId, optedOut, inflight, overlapped, probe>>

\* The bulk import without the validProspects.length === 0 test: an empty
\* batch goes through the insert and is answered 201 with an empty array.
BulkImportEmptyInsert(sourceId, payload) ==
  LET valid == ValidIndices(prospects, payload)
  IN  /\ IF payload = <<>>
         THEN /\ resp' = Response("bulk", 400, {}, Null)
              /\ UNCHANGED <<prospects, nextId>>
         ELSE /\ nextId + Len(valid) - 1 <= MaxIds
              /\ \E t \in Times :
                   prospects' = prospects \cup BulkRows(sourceId, payload, valid, nextId, t)
              /\ nextId' = nextId + Len(valid)
              /\ resp' = Response("bulk", 201,
                           {generateId("pros", nextId + k - 1) : k \in 1..Len(valid)}, Null)
      /\ UNCHANGED <<notes, nextNoteId, optedOut, inflight, overlapped, probe>>

\* POST /sources/:sourceId/prospects/bulk
BulkImport(sourceId, payload) ==
  LET valid == ValidIndices(prospects, payload)
  IN  /\ IF payload = <<>> \/ valid = <<>>
         THEN /\ resp' = Response("bulk", 400, {}, Null)
              /\ UNCHANGED <<prospects, nextId>>
         ELSE /\ nextId + Len(valid) - 1 <= MaxIds
              /\ \E t \in Times :
                   prospects' = prospects \cup BulkRows(sourceId, payload, valid, nextId, t)
              /\ nextId' = nextId + Len(valid)
              /\ resp' = Response("bulk", 201,
                           {generateId("pros", nextId + k - 1) : k \in 1..Len(valid)}, Null)
      /\ UNCHANGED <<notes, nextNoteId, optedOut, inflight, overlapped, probe>>

\* What the client sees of a bulk import one of whose INSERTs fails: 201
\* with the rows that are there, 500, or no answer at all (code 0) when the
\* error, which stmt.run has no callback for, ends the process.
StorageErrorCodes == {0, 201, 500}

\* The rows in the table after the stmt.run of the failed-th admitted row
\* failed: the rows before it, and the rows after it unless the process
\* ended (the statements run outside any transaction).
RowsDespiteError(sourceId, payload, valid, first, t, failed, resumed) ==
  {BulkRow(generateId("pros", first + k - 1), sourceId, payload[valid[k]], t) :
     k \in {j \in 1..Len(valid) : j < failed \/ (resumed /\ j > failed)}}

\* A bulk import in which the stmt.run of one admitted row fails (a locked
\* database).
BulkImportStorageError(sourceId, payload) ==
  /\ ValidIndices(prospects, payload) # <<>>
  /\ nextId + Len(ValidIndices(prospects, payload)) - 1 <= MaxIds
  /\ \E failed \in 1..Len(ValidIndices(prospects, payload)), resumed \in BOOLEAN,
        t \in Times :
       prospects' = prospects \cup
         RowsDespiteError(sourceId, payload, ValidIndices(prospects, payload),
                          nextId, t, failed, resumed)
  /\ \E code \in StorageErrorCodes :
       resp' = Response("bulk", code,
                 IF code = 201 THEN {r.id : r \in prospects' \ prospects} ELSE {}, Null)
  /\ nextId' = nextId + Len(ValidIndices(prospects, payload))
  /\ UNCHANGED <<notes, nextNoteId, optedOut, inflight, overlapped, probe>>

\* SetColumn with "AND <column> IS NULL" in its WHERE clause.
SetColumnWhenNull(op, id, column, value) ==
  /\ prospects' = {IF r.id = id /\ r[column] = NoTime
                     THEN [r EXCEPT ![column] = value] ELSE r : r \in prospects}
  /\ resp' = IF {r \in getProspectById(prospects, id) : r[column] = NoTime} = {}
             THEN Response(op, 404, {}, Null)
             ELSE Response(op, 200, {}, Null)
  /\ UNCHANGED <<notes, nextId, nextNoteId, inflight, overlapped, probe>>

\* UPDATE prospects SET <column> = <value> WHERE id = ?, then 404 when no row
\* changed and 200 otherwise.
SetColumn(op, id, column, value) ==
  /\ prospects' = {IF r.id = id THEN [r EXCEPT ![column] = value] ELSE r :
                     r \in prospects}
  /\ resp' = IF getProspectById(prospects, id) = {}
             THEN Response(op, 404, {}, Null)
             ELSE Response(op, 200, {}, Null)
  /\ UNCHANGED <<notes, nextId, nextNoteId, inflight, overlapped, probe>>

\* An archive that also lifts the suppression of the row.
ArchiveLiftingSuppression(id) ==
  \E t \in Times :
    /\ prospects' = {IF r.id = id
                       THEN [r EXCEPT !.archivedAt = t, !.suppressedAt = NoTime]
                       ELSE r : r \in prospects}
    /\ resp' = IF getProspectById(prospects, id) = {}
               THEN Response("archive", 404, {}, Null)
               ELSE Response("archive", 200, {}, Null)
    /\ UNCHANGED <<notes, nextId, nextNoteId, optedOut, inflight, overlapped, probe>>

\* PATCH /prospects/:id/archive
Archive(id) ==
  \E t \in Times :
    SetColumn("archive", id, "archivedAt", t) /\ UNCHANGED optedOut

\* PATCH /prospects/:id/restore
Restore(id) ==
  SetColumn("restore", id, "archivedAt", NoTime) /\ UNCHANGED optedOut

\* PATCH /prospects/:id/suppress
Suppress(id) ==
  \E t \in Times :
    /\ SetColumn("suppress", id, "suppressedAt", t)
    /\ optedOut' = optedOut \cup UNION {RowKeys(r) : r \in getProspectById(prospects, id)}

\* PATCH /prospects/:id/unsuppress
Unsuppress(id) ==
  /\ SetColumn("unsuppress", id, "suppressedAt", NoTime)
  /\ optedOut' = optedOut \ UNION {RowKeys(r) : r \in getProspectById(prospects, id)}

allowedStatuses == {Uncontacted, Contacted, Qualified, BadFit}

\* Every kind of status field PATCH /prospects/:id can be sent: the four
\* allowed words, a missing one, a word outside the enum, a padded word.
StatusInputs == allowedStatuses \cup {Null, <<"bogus">>, <<" ", "qualified">>}

\* PATCH /prospects/:id without the allowedStatuses.includes test.
PatchStatusUnchecked(id, status) ==
  /\ IF ~Truthy(status)
     THEN /\ resp' = Response("patch", 400, {}, Null)
          /\ UNCHANGED prospects
     ELSE /\ prospects' = {IF r.id = id THEN [r EXCEPT !.status = status] ELSE r :
                             r \in prospects}
          /\ resp' = IF getProspectById(prospects, id) = {}
                     THEN Response("patch", 404, {}, Null)
                     ELSE Response("patch", 200, {}, Null)
  /\ UNCHANGED <<notes, nextId, nextNoteId, optedOut, inflight, overlapped, probe>>

\* PATCH /prospects/:id with updateProspectStatus
PatchStatus(id, status) ==
  /\ IF ~Truthy(status) \/ status \notin allowedStatuses
     THEN /\ resp' = Response("patch", 400, {}, Null)
          /\ UNCHANGED prospects
     ELSE /\ prospects' = {IF r.id = id THEN [r EXCEPT !.status = status] ELSE r :
                             r \in prospects}
          /\ resp' = IF getProspectById(prospects, id) = {}
                     THEN Response("patch", 404, {}, Null)
                     ELSE Response("patch", 200, {}, Null)
  /\ UNCHANGED <<notes, nextId, nextNoteId, optedOut, inflight, overlapped, probe>>

\* DELETE FROM prospects WHERE id = ?: the prospect row goes, and the notes
\* that reference it go only when the connection enforces foreign keys.
DeleteRow(id) ==
  /\ prospects' = {r \in prospects : r.id # id}
  /\ notes' = IF ForeignKeysEnabled
              THEN {n \in notes : n.prospectId # id}
              ELSE notes

\* DELETE /prospects/:id without the archivedAt test.
DeleteProspectUnchecked(id) ==
  /\ IF getProspectById(prospects, id) = {}
     THEN /\ resp' = Response("delete", 404, {}, Null)
          /\ UNCHANGED <<prospects, notes>>
     ELSE /\ DeleteRow(id)
          /\ resp' = Response("delete", 200, {}, Null)
  /\ UNCHANGED <<nextId, nextNoteId, optedOut, inflight, overlapped, probe>>

\* DELETE /prospects/:id
DeleteProspect(id) ==
  LET prospect == getProspectById(prospects, id)
  IN  /\ IF prospect = {}
         THEN /\ resp' = Response("delete", 404, {}, Null)
              /\ UNCHANGED <<prospects, notes>>
         ELSE IF \E r \in prospect : r.archivedAt = NoTime
              THEN /\ resp' = Response("delete", 400, {}, Null)
                   /\ UNCHANGED <<prospects, notes>>
              ELSE /\ DeleteRow(id)
                   /\ resp' = Response("delete", 200, {}, Null)
      /\ UNCHANGED <<nextId, nextNoteId, optedOut, inflight, overlapped, probe>>

\* POST /prospects/:id/notes with addProspectNote: the INSERT names the
\* prospect and fails on an unknown one only under foreign-key enforcement.
AddNote(id, content) ==
  /\ IF Trim(content) = <<>>
     THEN /\ resp' = Response("note", 400, {}, Null)
          /\ UNCHANGED <<notes, nextNoteId, optedOut, inflight, overlapped, probe>>
     ELSE IF ForeignKeysEnabled /\ getProspectById(prospects, id) = {}
          THEN /\ resp' = Response("note", 500, {}, Null)
               /\ UNCHANGED <<notes, nextNoteId, optedOut, inflight, overlapped, probe>>
          ELSE /\ nextNoteId <= MaxNotes
               /\ notes' = notes \cup {[id |-> generateId("note", nextNoteId),
                                         prospectId |-> id, note |-> Trim(content)]}
               /\ nextNoteId' = nextNoteId + 1
               /\ resp' = Response("note", 201, {}, Null)
  /\ UNCHANGED <<prospects, nextId, optedOut, inflight, overlapped, probe>>

\* Values of the archived and suppressed query parameters of GET /prospects:
\* absent, '1', '0' and a padded '1 '.
FlagValues == {Null, <<"1">>, <<"0">>, <<"1", " ">>}

\* The query strings of GET /prospects (ownerName and search left out).
Queries ==
  [archived : FlagValues, suppressed : FlagValues,
   status : {Null, Contacted}, sourceId : {Null} \cup Sources]

NoFlags(query) == query.archived = Null /\ query.suppressed = Null

\* GET /prospects without the else branch of includeSuppressed: the
\* suppressedAt clause is added only when suppressed=1 is sent.
ListProspectsSuppressedOptional(table, query) ==
  LET includeSuppressed == query.suppressed = <<"1">>
      includeArchived == query.archived = <<"1">>
  IN  {r \in table :
         /\ (r.archivedAt # NoTime) = includeArchived
         /\ includeSuppressed => r.suppressedAt # NoTime
         /\ NonBlank(query.status) => r.status = Trim(query.status)
         /\ NonBlank(query.sourceId) => r.sourceId = Trim(query.sourceId)}

\* GET /prospects with only the archivedAt clause in its WHERE.
ListProspectsByArchivedOnly(table, query) ==
  {r \in table :
     /\ (r.archivedAt # NoTime) = (query.archived = <<"1">>)
     /\ NonBlank(query.status) => r.status = Trim(query.status)
     /\ NonBlank(query.sourceId) => r.sourceId = Trim(query.sourceId)}

\* GET /prospects: the rows of its SELECT (their order left out).
ListProspects(table, query) ==
  LET includeSuppressed == query.suppressed = <<"1">>
      includeArchived == query.archived = <<"1">>
  IN  {r \in table :
         /\ (r.archivedAt # NoTime) = includeArchived
         /\ (r.suppressedAt # NoTime) = includeSuppressed
         /\ NonBlank(query.status) => r.status = Trim(query.status)
         /\ NonBlank(query.sourceId) => r.sourceId = Trim(query.sourceId)}

\* The enrichment preview reading the source through the clauses of the
\* plain prospect list: archivedAt IS NULL AND suppressedAt IS NULL.
EnrichPreviewInputAsListed(table, sourceId) ==
  {r \in table :
     r.sourceId = sourceId /\ r.archivedAt = NoTime /\ r.suppressedAt = NoTime}

\* POST /ai/sources/:sourceId/enrich-preview: the rows of its SELECT, every
\* one of which it turns into a preview or a prompt block.
EnrichPreviewInput(table, sourceId) ==
  {r \in table : r.sourceId = sourceId /\ r.suppressedAt = NoTime}

Next ==
  \/ \E raw \in Candidates : CreateProspect(raw)
  \/ \E sourceId \in Sources, payload \in Payloads : BulkImport(sourceId, payload)
  \/ \E id \in Ids : Archive(id)
  \/ \E id \in Ids : Restore(id)
  \/ \E id \in Ids : Suppress(id)
  \/ \E id \in Ids : Unsuppress(id)
  \/ \E id \in Ids, status \in PatchStatuses : PatchStatus(id, status)
  \/ \E id \in Ids : DeleteProspect(id)

Spec == Init /\ [][Next]_vars

\* Prospects with their notes: the requests that create, archive, restore
\* and delete a prospect, and the one that writes a note.
NextNotes ==
  \/ \E raw \in Candidates : CreateProspect(raw)
  \/ \E id \in Ids : Archive(id)
  \/ \E id \in Ids : Restore(id)
  \/ \E id \in Ids : DeleteProspect(id)
  \/ \E id \in Ids, content \in NoteContents : AddNote(id, content)

SpecNotes == Init /\ [][NextNotes]_vars

\* The life of single prospects: created one by one, then archived,
\* restored, suppressed, unsuppressed, patched and deleted.
NextLifecycle ==
  \/ \E raw \in Candidates : CreateProspect(raw)
  \/ \E id \in Ids : Archive(id)
  \/ \E id \in Ids : Restore(id)
  \/ \E id \in Ids : Suppress(id)
  \/ \E id \in Ids : Unsuppress(id)
  \/ \E id \in Ids, status \in PatchStatuses : PatchStatus(id, status)
  \/ \E id \in Ids : DeleteProspect(id)

SpecLifecycle == Init /\ [][NextLifecycle]_vars

\* Imported prospects: bulk imports, and the requests that archive,
\* suppress and unsuppress what they brought in.
NextImport ==
  \/ \E sourceId \in Sources, payload \in Payloads : BulkImport(sourceId, payload)
  \/ \E id \in Ids : Archive(id)
  \/ \E id \in Ids : Suppress(id)
  \/ \E id \in Ids : Unsuppress(id)

SpecImport == Init /\ [][NextImport]_vars

\* Bulk imports over a storage that can fail.
NextStorage ==
  \/ \E sourceId \in Sources, payload \in Payloads : BulkImport(sourceId, payload)
  \/ \E sourceId \in Sources, payload \in Payloads :
       BulkImportStorageError(sourceId, payload)
  \/ \E id \in Ids : Archive(id)
  \/ \E id \in Ids : Suppress(id)

SpecStorage == Init /\ [][NextStorage]_vars

\* The workflow status of single prospects: created one by one, patched
\* with every kind of status, archived and restored.
NextStatus ==
  \/ \E raw \in Candidates : CreateProspect(raw)
  \/ \E id \in Ids, status \in StatusInputs : PatchStatus(id, status)
  \/ \E id \in Ids : Archive(id)
  \/ \E id \in Ids : Restore(id)

SpecStatus == Init /\ [][NextStatus]_vars

\* Intake: single creates and bulk imports of the intake bodies, with the
\* flag updates and the delete that change what the resolvers read.
NextIntake ==
  \/ \E raw \in IntakeCandidates : CreateProspect(raw)
  \/ \E sourceId \in Sources, payload \in IntakePayloads : BulkImport(sourceId, payload)
  \/ \E id \in Ids : Archive(id)
  \/ \E id \in Ids : Suppress(id)
  \/ \E id \in Ids : DeleteProspect(id)

SpecIntake == Init /\ [][NextIntake]_vars

\* Identity: single creates, bulk imports of one row, the four flag updates
\* and the delete.
NextIdentity ==
  \/ \E raw \in Candidates : CreateProspect(raw)
  \/ \E sourceId \in Sources, raw \in Candidates : BulkImport(sourceId, <<raw>>)
  \/ \E id \in Ids : Archive(id)
  \/ \E id \in Ids : Restore(id)
  \/ \E id \in Ids : Suppress(id)
  \/ \E id \in Ids : Unsuppress(id)
  \/ \E id \in Ids : DeleteProspect(id)

SpecIdentity == Init /\ [][NextIdentity]_vars

\* ------------------------------------------------------------------------
\* Requests in flight: every storage call is a step of its own, and the
\* steps of different requests interleave.  The JavaScript between two
\* storage calls runs to completion and belongs to the step before it.
\* ------------------------------------------------------------------------

\* The requests the server is handling at once.
Clients == {"r1", "r2"}

\* Bodies of the racing requests: two spellings of one email.
RaceCandidates == {CandAnn, CandAnnPadded}
RacePayloads == SeqsUpTo(RaceCandidates, MaxBatch) \ {<<>>}

Pending(c) == {p \in inflight : p.client = c}

InFlight(client, op, pc, sourceId, payload, valid, first, done) ==
  [client |-> client, op |-> op, pc |-> pc, sourceId |-> sourceId,
   payload |-> payload, valid |-> valid, first |-> first, done |-> done]

\* Bulk import, first step: the snapshot SELECT and its callback, which
\* filters the payload against the snapshot and queues the INSERTs.
BulkSnapshot(c, sourceId, payload) ==
  LET valid == ValidIndices(prospects, payload)
  IN  /\ Pending(c) = {}
      /\ overlapped' = (overlapped \/ inflight # {})
      /\ IF valid = <<>>
         THEN /\ resp' = Response("bulk", 400, {}, Null)
              /\ UNCHANGED <<nextId, inflight>>
         ELSE /\ nextId + Len(valid) - 1 <= MaxIds
              /\ nextId' = nextId + Len(valid)
              /\ inflight' = inflight \cup
                   {InFlight(c, "bulk", "insert", sourceId, payload, valid, nextId, 0)}
              /\ UNCHANGED resp
      /\ UNCHANGED <<prospects, notes, nextNoteId, optedOut, probe>>

\* Bulk import: one stmt.run of the insert loop.
BulkInsertRow(c) ==
  \E p \in Pending(c), t \in Times :
    /\ p.op = "bulk" /\ p.done < Len(p.valid)
    /\ prospects' = prospects \cup
         {BulkRow(generateId("pros", p.first + p.done), p.sourceId,
                  p.payload[p.valid[p.done + 1]], t)}
    /\ inflight' = (inflight \ {p}) \cup {[p EXCEPT !.done = p.done + 1]}
    /\ UNCHANGED <<notes, nextId, nextNoteId, resp, optedOut, overlapped, probe>>

\* Bulk import, last step: finalize, SELECT the inserted rows, answer 201.
BulkRespond(c) ==
  \E p \in Pending(c) :
    /\ p.op = "bulk" /\ p.done = Len(p.valid)
    /\ resp' = Response("bulk", 201,
                 {generateId("pros", p.first + k - 1) : k \in 1..Len(p.valid)}, Null)
    /\ inflight' = inflight \ {p}
    /\ UNCHANGED <<prospects, notes, nextId, nextNoteId, optedOut, overlapped, probe>>

\* Single create, first step: the first SELECT of checkDuplicateProspect (by
\* email when the body has one, else by domain and name, else none).
CreateLookup(c, raw) ==
  LET ne == NormalizedEmailOf(raw)
      nd == NormalizedDomainOf(raw)
      nn == NormalizedContactNameOf(raw)
      found == IF Truthy(ne) THEN EmailMatches(prospects, ne)
               ELSE IF Truthy(nd) /\ Truthy(nn)
                    THEN DomainNameMatches(prospects, nd, nn)
                    ELSE {}
      pc == IF Truthy(ne) /\ Truthy(nd) /\ Truthy(nn) THEN "lookup2" ELSE "insert"
  IN  /\ Pending(c) = {}
      /\ overlapped' = (overlapped \/ inflight # {})
      /\ IF found # {}
         THEN /\ \E e \in found : resp' = Response("create", 409, {}, e.id)
              /\ UNCHANGED inflight
         ELSE /\ inflight' = inflight \cup
                   {InFlight(c, "create", pc, Null, <<raw>>, <<>>, 0, 0)}
              /\ UNCHANGED resp
      /\ UNCHANGED <<prospects, notes, nextId, nextNoteId, optedOut, probe>>

\* Single create: the second SELECT of checkDuplicateProspect, by domain and
\* name, after the one by email found nothing.
CreateLookup2(c) ==
  \E p \in Pending(c) :
    LET raw == p.payload[1]
        found == DomainNameMatches(prospects, NormalizedDomainOf(raw),
                                   NormalizedContactNameOf(raw))
    IN  /\ p.op = "create" /\ p.pc = "lookup2"
        /\ IF found # {}
           THEN /\ \E e \in found : resp' = Response("create", 409, {}, e.id)
                /\ inflight' = inflight \ {p}
           ELSE /\ inflight' = (inflight \ {p}) \cup {[p EXCEPT !.pc = "insert"]}
                /\ UNCHANGED resp
        /\ UNCHANGED <<prospects, notes, nextId, nextNoteId, optedOut, overlapped, probe>>

\* The INSERT of a single create against a table with a unique index on
\* normalizedEmail: it fails, and the request is answered 500, when a row
\* already carries the email.
CreateInsertUnique(c) ==
  \E p \in Pending(c), t \in Times :
    /\ p.op = "create" /\ p.pc = "insert"
    /\ nextId <= MaxIds
    /\ IF EmailMatches(prospects, NormalizedEmailOf(p.payload[1])) # {}
       THEN /\ resp' = Response("create", 500, {}, Null)
            /\ inflight' = inflight \ {p}
            /\ UNCHANGED <<prospects, nextId>>
       ELSE /\ prospects' = prospects \cup
                 {SingleRow(generateId("pros", nextId), p.payload[1], t)}
            /\ nextId' = nextId + 1
            /\ inflight' = (inflight \ {p}) \cup
                 {[p EXCEPT !.pc = "respond", !.first = nextId]}
            /\ UNCHANGED resp
    /\ UNCHANGED <<notes, nextNoteId, optedOut, overlapped, probe>>

\* Single create: the INSERT.
CreateInsert(c) ==
  \E p \in Pending(c), t \in Times :
    /\ p.op = "create" /\ p.pc = "insert"
    /\ nextId <= MaxIds
    /\ prospects' = prospects \cup {SingleRow(generateId("pros", nextId), p.payload[1], t)}
    /\ nextId' = nextId + 1
    /\ inflight' = (inflight \ {p}) \cup {[p EXCEPT !.pc = "respond", !.first = nextId]}
    /\ UNCHANGED <<notes, nextNoteId, resp, optedOut, overlapped, probe>>

\* Single create, last step: SELECT the created row, answer 201.
CreateRespond(c) ==
  \E p \in Pending(c) :
    /\ p.op = "create" /\ p.pc = "respond"
    /\ resp' = Response("create", 201, {generateId("pros", p.first)}, Null)
    /\ inflight' = inflight \ {p}
    /\ UNCHANGED <<prospects, notes, nextId, nextNoteId, optedOut, overlapped, probe>>

\* DELETE, first step: getProspectById and the two tests on its result.
DeleteLookup(c, n) ==
  LET prospect == getProspectById(prospects, generateId("pros", n))
  IN  /\ Pending(c) = {}
      /\ overlapped' = (overlapped \/ inflight # {})
      /\ IF prospect = {}
         THEN /\ resp' = Response("delete", 404, {}, Null)
              /\ UNCHANGED inflight
         ELSE IF \E r \in prospect : r.archivedAt = NoTime
              THEN /\ resp' = Response("delete", 400, {}, Null)
                   /\ UNCHANGED inflight
              ELSE /\ inflight' = inflight \cup
                        {InFlight(c, "delete", "run", Null, <<>>, <<>>, n, 0)}
                   /\ UNCHANGED resp
      /\ UNCHANGED <<prospects, notes, nextId, nextNoteId, optedOut, probe>>

\* DELETE, second step: DELETE FROM prospects WHERE id = ? and its callback.
DeleteRun(c) ==
  \E p \in Pending(c) :
    /\ p.op = "delete" /\ p.pc = "run"
    /\ DeleteRow(generateId("pros", p.first))
    /\ resp' = IF getProspectById(prospects, generateId("pros", p.first)) = {}
               THEN Response("delete", 404, {}, Null)
               ELSE Response("delete", 200, {}, Null)
    /\ inflight' = inflight \ {p}
    /\ UNCHANGED <<nextId, nextNoteId, optedOut, overlapped, probe>>

NextRace ==
  \/ \E c \in Clients, sourceId \in Sources, payload \in RacePayloads :
       BulkSnapshot(c, sourceId, payload)
  \/ \E c \in Clients : BulkInsertRow(c)
  \/ \E c \in Clients : BulkRespond(c)
  \/ \E c \in Clients, raw \in RaceCandidates : CreateLookup(c, raw)
  \/ \E c \in Clients : CreateLookup2(c)
  \/ \E c \in Clients : CreateInsert(c)
  \/ \E c \in Clients : CreateRespond(c)

SpecRace == Init /\ [][NextRace]_vars

\* Deletes in flight, next to the one-statement archive and restore and to
\* the creates that bring the rows in.
NextDeleteRace ==
  \/ \E c \in Clients, raw \in RaceCandidates : CreateLookup(c, raw)
  \/ \E c \in Clients : CreateLookup2(c)
  \/ \E c \in Clients : CreateInsert(c)
  \/ \E c \in Clients : CreateRespond(c)
  \/ \E id \in Ids : Archive(id)
  \/ \E id \in Ids : Restore(id)
  \/ \E c \in Clients, n \in 1..MaxIds : DeleteLookup(c, n)
  \/ \E c \in Clients : DeleteRun(c)

SpecDeleteRace == Init /\ [][NextDeleteRace]_vars

\* ------------------------------------------------------------------------
\* The normalisers on their own: a string is drawn, and normalizeEmail and
\* normalizeName are applied to it and to their results, in any order.
\* ------------------------------------------------------------------------

\* Longest string drawn.
MaxLen == 3

\* The characters drawn: two kinds of whitespace, an upper-case and a
\* lower-case letter, and "@".
ProbeChars == {" ", "\t", "A", "b", "@"}

\* The values a caller can hand to a normaliser: null and every string of
\* up to MaxLen characters.
ProbeInputs == {Null} \cup SeqsUpTo(ProbeChars, MaxLen)

InitNormalize ==
  /\ prospects = {}
  /\ notes = {}
  /\ nextId = 1
  /\ nextNoteId = 1
  /\ resp = Response("none", 0, {}, Null)
  /\ optedOut = {}
  /\ inflight = {}
  /\ overlapped = FALSE
  /\ probe \in {[text |-> s, by |-> "none"] : s \in ProbeInputs}

\* normalizeEmail(probe)
ApplyNormalizeEmail ==
  /\ probe' = [text |-> normalizeEmail(probe.text), by |-> "normalizeEmail"]
  /\ UNCHANGED <<prospects, notes, nextId, nextNoteId, resp, optedOut, inflight,
                 overlapped>>

\* normalizeName(probe)
ApplyNormalizeName ==
  /\ probe' = [text |-> normalizeName(probe.text), by |-> "normalizeName"]
  /\ UNCHANGED <<prospects, notes, nextId, nextNoteId, resp, optedOut, inflight,
                 overlapped>>

NextNormalize ==
  \/ ApplyNormalizeEmail
  \/ ApplyNormalizeName

SpecNormalize == InitNormalize /\ [][NextNormalize]_vars

\* ------------------------------------------------------------------------
\* Properties
\* ------------------------------------------------------------------------

\* The email of a body trimmed and lower-cased, Null when there is none.
TrimmedLowerEmail(raw) ==
  IF raw.email = Null \/ Trim(raw.email) = <<>> THEN Null
  ELSE ToLowerCase(Trim(raw.email))

\* The rows whose normalizedEmail is the trimmed, lower-cased email of raw.
RowsWithEmailOf(raw) ==
  IF TrimmedLowerEmail(raw) = Null THEN {}
  ELSE {r \in prospects : r.normalizedEmail = TrimmedLowerEmail(raw)}

\* The rows a step inserts.
Inserted == {r \in prospects' : r.id \notin {x.id : x \in prospects}}

SameEmail(r1, r2) ==
  r1.normalizedEmail # Null /\ r1.normalizedEmail = r2.normalizedEmail

SameDomainName(r1, r2) ==
  /\ r1.normalizedEmail = Null /\ r2.normalizedEmail = Null
  /\ r1.normalizedDomain # Null /\ r1.normalizedContactName # Null
  /\ r1.normalizedDomain = r2.normalizedDomain
  /\ r1.normalizedContactName = r2.normalizedContactName

\* C1: with requests handled one at a time, no two rows share a non-null
\* normalizedEmail, and no two rows without normalizedEmail share a
\* (normalizedDomain, normalizedContactName) pair with both parts non-null.
C1_UniqueIdentity ==
  \A r1 \in prospects : \A r2 \in prospects \ {r1} :
    ~SameEmail(r1, r2) /\ ~SameDomainName(r1, r2)

\* Two rows side by side, one keyed by email and one by domain and name,
\* the second one brought in by a bulk import.
C1_Witness ==
  /\ resp.op = "bulk" /\ resp.code = 201
  /\ \E r1 \in prospects : \E r2 \in prospects \ {r1} :
       /\ r1.normalizedEmail # Null
       /\ r2.normalizedEmail = Null /\ r2.normalizedDomain # Null
       /\ r2.normalizedContactName # Null /\ r2.id \in resp.inserted

\* C2: a single create whose trimmed, lower-cased email is the
\* normalizedEmail of an existing row, suppressed or not, answers 409 with
\* that row's id and leaves the table as it was.
C2_CreateConflict ==
  [][\A raw \in Candidates :
       (CreateProspect(raw) /\ RowsWithEmailOf(raw) # {}) =>
         /\ resp'.code = 409
         /\ resp'.existingId \in {r.id : r \in RowsWithEmailOf(raw)}
         /\ prospects' = prospects]_vars

\* A 409 that names a suppressed row, stored from the padded, mixed-case
\* spelling of the email.
C2_Witness ==
  /\ resp.op = "create" /\ resp.code = 409
  /\ \E r \in prospects :
       /\ r.id = resp.existingId
       /\ r.suppressedAt # NoTime
       /\ r.email = CandAnnPadded.email

\* C3: a single create with a non-empty normalized email that no row
\* carries succeeds, also when a row has its domain and contact name.
C3_CreateEmailFirst ==
  [][\A raw \in Candidates :
       (CreateProspect(raw) /\ TrimmedLowerEmail(raw) # Null
          /\ RowsWithEmailOf(raw) = {}) =>
         resp'.code = 201]_vars

\* C4: a bulk row with a non-empty normalized email carried by no existing
\* row and by no earlier row of the payload is admitted and inserted, also
\* when its domain and name match an existing or an earlier row.
C4_BulkEmailFirst ==
  [][\A sourceId \in Sources, payload \in Payloads :
       BulkImport(sourceId, payload) =>
         \A i \in 1..Len(payload) :
           (/\ TrimmedLowerEmail(payload[i]) # Null
            /\ RowsWithEmailOf(payload[i]) = {}
            /\ \A j \in 1..(i - 1) :
                 TrimmedLowerEmail(payload[j]) # TrimmedLowerEmail(payload[i]))
           => \E r \in Inserted :
                r.normalizedEmail = TrimmedLowerEmail(payload[i])]_vars

\* C5: of the rows of a bulk payload that share a normalized email no
\* existing row carries, the first is inserted and no later one is.
C5_BulkFirstOfEmail ==
  [][\A sourceId \in Sources, payload \in Payloads :
       BulkImport(sourceId, payload) =>
         \A i \in 1..Len(payload) : \A j \in (i + 1)..Len(payload) :
           (/\ TrimmedLowerEmail(payload[i]) # Null
            /\ TrimmedLowerEmail(payload[j]) = TrimmedLowerEmail(payload[i])
            /\ RowsWithEmailOf(payload[i]) = {}
            /\ \A k \in 1..(i - 1) :
                 TrimmedLowerEmail(payload[k]) # TrimmedLowerEmail(payload[i]))
           => /\ \E r \in Inserted : r.email = payload[i].email
              /\ Cardinality({r \in Inserted :
                   r.normalizedEmail = TrimmedLowerEmail(payload[i])}) = 1]_vars

\* C6: a bulk row with a key of a suppressed existing row is not inserted,
\* and the response counts it under the outcome "suppressed".
C6_BulkReportsSuppressed ==
  [][\A sourceId \in Sources, payload \in Payloads :
       (/\ BulkImport(sourceId, payload)
        /\ \E i \in 1..Len(payload) :
             (KeyEmail(payload[i]) \cup KeyDomain(payload[i]))
               \cap SuppressedLookup(prospects) # {})
       => /\ \A r \in Inserted : RowKeys(r) \cap SuppressedLookup(prospects) = {}
          /\ \E h \in resp'.headers :
               h.name = "X-LeadGen-Import-Skipped-Suppressed" /\ h.value >= 1]_vars

\* C7: no row is inserted with an identity key that has been suppressed and
\* not unsuppressed since, whatever happened in between.
C7_SuppressionPermanent ==
  [][\A r \in Inserted : RowKeys(r) \cap optedOut = {}]_vars

\* C8: two rows come to share a normalizedEmail, and only when a request
\* read the table while another request was between its read and its write.
C8_DuplicatesByStaleSnapshot ==
  (\E r1 \in prospects : \E r2 \in prospects \ {r1} : SameEmail(r1, r2))
    => overlapped

\* Two bulk imports have both answered and left two rows with one
\* normalizedEmail.
C8_Witness ==
  /\ inflight = {}
  /\ resp.op = "bulk" /\ resp.code = 201
  /\ \E r1 \in prospects : \E r2 \in prospects \ {r1} :
       SameEmail(r1, r2) /\ r1.origin = Purchased /\ r2.origin = Purchased

\* C9: DELETE answers 404 for an unknown id and 400 for a prospect that is
\* not archived, both without a change, and 200 for an archived prospect,
\* whose row it removes.
C9_DeleteNeedsArchive ==
  [][\A id \in Ids :
       DeleteProspect(id) =>
         LET row == {r \in prospects : r.id = id}
         IN  /\ row = {} => (resp'.code = 404 /\ prospects' = prospects)
             /\ (\E r \in row : r.archivedAt = NoTime) =>
                  (resp'.code = 400 /\ prospects' = prospects)
             /\ (\E r \in row : r.archivedAt # NoTime) =>
                  (resp'.code = 200 /\ prospects' = prospects \ row)]_vars

\* An archived prospect has been deleted and another prospect is still
\* there.
C9_Witness ==
  /\ resp.op = "delete" /\ resp.code = 200
  /\ Cardinality(prospects) = 1

\* C10: after a successful delete no note of the deleted prospect remains.
C10_DeleteCascadesNotes ==
  [][\A id \in Ids :
       (DeleteProspect(id) /\ resp'.code = 200) =>
         \A n \in notes' : n.prospectId # id]_vars

\* The row with this id after the step.
RowAfter(id) == {r \in prospects' : r.id = id}

\* C11: on an existing prospect archive leaves archivedAt non-null, restore
\* leaves it null, suppress leaves suppressedAt non-null and unsuppress
\* leaves it null, whatever the flag was; on an unknown id each of the four
\* answers 404 and changes no row.
C11_LifecycleFlags ==
  [][\A id \in Ids :
       LET known == getProspectById(prospects, id) # {}
           Missing == resp'.code = 404 /\ prospects' = prospects
           Done(column, null) ==
             /\ resp'.code = 200
             /\ RowAfter(id) # {}
             /\ \A r \in RowAfter(id) : (r[column] = NoTime) = null
       IN  /\ Archive(id) => IF known THEN Done("archivedAt", FALSE) ELSE Missing
           /\ Restore(id) => IF known THEN Done("archivedAt", TRUE) ELSE Missing
           /\ Suppress(id) => IF known THEN Done("suppressedAt", FALSE) ELSE Missing
           /\ Unsuppress(id) => IF known THEN Done("suppressedAt", TRUE) ELSE Missing]_vars

\* An archived prospect has just been unsuppressed: its suppressedAt is
\* null again and its archivedAt still set.
C11_Witness ==
  /\ resp.op = "unsuppress" /\ resp.code = 200
  /\ \E r \in prospects : r.archivedAt # NoTime /\ r.suppressedAt = NoTime

\* C12: GET /prospects without the archived and suppressed parameters
\* returns no archived and no suppressed row, and GET /prospects?archived=1
\* returns archived rows only.
C12_ListFilters ==
  \A query \in Queries :
    LET rows == ListProspects(prospects, query)
    IN  /\ NoFlags(query) =>
              \A r \in rows : r.archivedAt = NoTime /\ r.suppressedAt = NoTime
        /\ query.archived = <<"1">> => \A r \in rows : r.archivedAt # NoTime

\* A suppressed prospect that is not archived stays out of the plain list,
\* while the archived list has a row to show.
C12_Witness ==
  \E query \in Queries, archive \in Queries :
    /\ NoFlags(query) /\ query.status = Null /\ query.sourceId = Null
    /\ archive = [query EXCEPT !.archived = <<"1">>]
    /\ ListProspects(prospects, archive) # {}
    /\ \E r \in prospects \ ListProspects(prospects, query) :
         r.suppressedAt # NoTime /\ r.archivedAt = NoTime

\* A payload row the import cannot take whatever else the payload holds: it
\* has no identifier, or one of its keys is the key of a row of the table.
Unusable(raw) ==
  \/ ~hasIdentifier(raw)
  \/ (KeyEmail(raw) \cup KeyDomain(raw)) \cap ExistingLookup(prospects) # {}

\* C13: a bulk import that admits no row answers 400 and leaves the table
\* as it was; an answer other than 400 has inserted a row.
C13_NothingAdmitted ==
  [][\A sourceId \in Sources, payload \in Payloads :
       BulkImport(sourceId, payload) =>
         /\ (\A i \in 1..Len(payload) : Unusable(payload[i])) =>
              (resp'.code = 400 /\ prospects' = prospects)
         /\ resp'.code = 400 => prospects' = prospects
         /\ resp'.code # 400 => Inserted # {}]_vars

\* A bulk import has been answered 400 while the table holds a suppressed
\* row and a second row.
C13_Witness ==
  /\ resp.op = "bulk" /\ resp.code = 400
  /\ Cardinality(prospects) = 2
  /\ \E r \in prospects : r.suppressedAt # NoTime

\* The header of a response with this name, as a set of values.
HeaderValues(response, name) == {h.value : h \in {x \in response.headers : x.name = name}}

\* C14: every bulk-import response carries headers with the number of rows
\* received, valid and inserted, each equal to the number of payload rows
\* with that outcome (the skip counts come on top).
C14_BulkReportsCounts ==
  [][\A sourceId \in Sources, payload \in Payloads :
       BulkImport(sourceId, payload) =>
         /\ HeaderValues(resp', "X-LeadGen-Import-Received") = {Len(payload)}
         /\ HeaderValues(resp', "X-LeadGen-Import-Valid") =
              {Len(ValidIndices(prospects, payload))}
         /\ HeaderValues(resp', "X-LeadGen-Import-Inserted") =
              {Cardinality(Inserted)}]_vars

\* C15: a bulk import inserts all of its admitted rows or none; when it
\* answers 201 the rows it added are the admitted rows and the body lists
\* exactly them, also when the storage fails on one row.
C15_BatchAllOrNothing ==
  [][\A sourceId \in Sources, payload \in Payloads :
       (BulkImport(sourceId, payload) \/ BulkImportStorageError(sourceId, payload)) =>
         LET admitted == Len(ValidIndices(prospects, payload))
         IN  /\ Cardinality(Inserted) \in {0, admitted}
             /\ resp'.code = 201 =>
                  /\ Cardinality(Inserted) = admitted
                  /\ resp'.inserted = {r.id : r \in Inserted}]_vars

\* The resolver finds no row for this body.
NoMatch(raw) ==
  checkDuplicateProspect(prospects, NormalizedEmailOf(raw), NormalizedDomainOf(raw),
                         NormalizedContactNameOf(raw)) = {}

\* A step adds exactly one row and leaves every other row as it was, and
\* the new row has its four lifecycle timestamps null.
OneFreshRow ==
  /\ Cardinality(Inserted) = 1
  /\ prospects' \ Inserted = prospects
  /\ \A r \in Inserted :
       /\ r.archivedAt = NoTime /\ r.suppressedAt = NoTime
       /\ r.updatedAt = NoTime /\ r.lastContactedAt = NoTime

InsertedFor(k) == {r \in Inserted : r.id = generateId("pros", nextId + k - 1)}

\* What a bulk import stores for an admitted row whatever its origin: the
\* path's sourceId, status 'uncontacted' when the row has none, and null
\* archivedAt and suppressedAt.
ImportedAs(r, sourceId, raw) ==
  /\ r.sourceId = sourceId
  /\ r.email = raw.email /\ r.contactName = raw.contactName
  /\ raw.status = Null => r.status = Uncontacted
  /\ r.archivedAt = NoTime /\ r.suppressedAt = NoTime

StatusEnum == {<<"uncontacted">>, <<"contacted">>, <<"qualified">>, <<"bad-fit">>}

\* C18: PATCH /prospects/:id answers 400 and changes nothing for a status
\* that is missing or not one of the four words; with one of the four it
\* answers 404 for an unknown id, and for a known one it answers 200 and the
\* word becomes the row's status, whatever the status was, with every other
\* column and row as before.
C18_PatchStatusEnum ==
  [][\A id \in Ids, status \in StatusInputs :
       PatchStatus(id, status) =>
         IF status \notin StatusEnum
         THEN resp'.code = 400 /\ prospects' = prospects
         ELSE IF getProspectById(prospects, id) = {}
              THEN resp'.code = 404 /\ prospects' = prospects
              ELSE /\ resp'.code = 200
                   /\ prospects' =
                        {IF r.id = id THEN [r EXCEPT !.status = status] ELSE r :
                           r \in prospects}
                   /\ \A r \in RowAfter(id) : r.status = status]_vars

\* An archived prospect has been patched to 'bad-fit', a status no create
\* of the model stores.
C18_Witness ==
  /\ resp.op = "patch" /\ resp.code = 200
  /\ \E r \in prospects : r.status = <<"bad-fit">> /\ r.archivedAt # NoTime

\* C19: the status of every row is one of the four words of the enum,
\* whichever of single create, bulk import and status patch wrote it.
C19_StatusInEnum ==
  \A r \in prospects : r.status \in StatusEnum

\* C20: the enrichment preview of a source takes no suppressed prospect as
\* input and takes every prospect of the source that is not suppressed,
\* archived or not.
C20_EnrichmentSkipsSuppressed ==
  \A sourceId \in Sources :
    /\ \A r \in EnrichPreviewInput(prospects, sourceId) : r.suppressedAt = NoTime
    /\ \A r \in prospects :
         (r.sourceId = sourceId /\ r.suppressedAt = NoTime) =>
           r \in EnrichPreviewInput(prospects, sourceId)

\* A source with a suppressed prospect, left out, and an archived one that
\* is not suppressed, taken.
C20_Witness ==
  \E sourceId \in Sources :
    /\ \E r \in prospects \ EnrichPreviewInput(prospects, sourceId) :
         r.sourceId = sourceId /\ r.suppressedAt # NoTime
    /\ \E r \in EnrichPreviewInput(prospects, sourceId) : r.archivedAt # NoTime

\* C21: normalizeEmail applied to a result of normalizeEmail returns it
\* unchanged, and so does normalizeName on a result of normalizeName; a
\* null result stays null.
C21_NormalizersIdempotent ==
  [][/\ (ApplyNormalizeEmail /\ probe.by = "normalizeEmail") => probe'.text = probe.text
     /\ (ApplyNormalizeName /\ probe.by = "normalizeName") => probe'.text = probe.text]_vars

\* normalizeName has returned "a b", which only a string with upper case or
\* a tab comes to within three characters.
C21_Witness ==
  probe.by = "normalizeName" /\ probe.text = <<"a", " ", "b">>

\* A payload row whose company name, contact name and email are all empty
\* or whitespace.
BlankRow(raw) ==
  /\ raw.companyName = Null \/ Trim(raw.companyName) = <<>>
  /\ raw.contactName = Null \/ Trim(raw.contactName) = <<>>
  /\ raw.email = Null \/ Trim(raw.email) = <<>>

\* The payload without its blank rows, in order.
RECURSIVE WithoutBlank(_)
WithoutBlank(payload) ==
  IF payload = <<>> THEN <<>>
  ELSE IF BlankRow(Head(payload)) THEN WithoutBlank(Tail(payload))
       ELSE <<Head(payload)>> \o WithoutBlank(Tail(payload))

\* The bodies of the rows a bulk import of payload admits, in order.
AdmittedBodies(payload) ==
  [k \in 1..Len(ValidIndices(prospects, payload)) |->
     payload[ValidIndices(prospects, payload)[k]]]

\* C22: a bulk import inserts no row for a blank payload row, and admits
\* from a payload exactly what it admits from the payload without its blank
\* rows.
C22_BlankRowsSkipped ==
  [][\A sourceId \in Sources, payload \in Payloads :
       BulkImport(sourceId, payload) =>
         /\ \A k \in 1..Len(AdmittedBodies(payload)) :
              ~BlankRow(AdmittedBodies(payload)[k])
         /\ Cardinality(Inserted) = Len(AdmittedBodies(payload))
         /\ AdmittedBodies(payload) = AdmittedBodies(WithoutBlank(payload))]_vars

\* A bulk import has been answered 201 with a single row, that of a
\* company alone, as it is for that row alone and for that row next to a
\* blank one.
C22_Witness ==
  /\ resp.op = "bulk" /\ resp.code = 201
  /\ Cardinality(resp.inserted) = 1 /\ Cardinality(prospects) = 1
  /\ \E r \in prospects : r.companyName = CandCompanyOnly.companyName /\ r.email = Null

\* Every row is still there after the step, the same but for one column.
OnlyColumnChanges(column) ==
  /\ Cardinality(prospects') = Cardinality(prospects)
  /\ \A r \in prospects :
       \E after \in prospects' : after = [r EXCEPT ![column] = after[column]]

\* C23: archive and restore change no column but archivedAt, suppress and
\* unsuppress none but suppressedAt, in any row; single create and bulk
\* import leave every existing row as it was, its two flags included.
C23_FlagsIndependent ==
  [][/\ resp'.op \in {"archive", "restore"} => OnlyColumnChanges("archivedAt")
     /\ resp'.op \in {"suppress", "unsuppress"} => OnlyColumnChanges("suppressedAt")
     /\ resp'.op \in {"create", "bulk"} => prospects \subseteq prospects']_vars

\* A suppressed prospect has just been archived and is suppressed still.
C23_Witness ==
  /\ resp.op = "archive" /\ resp.code = 200
  /\ \E r \in prospects : r.archivedAt # NoTime /\ r.suppressedAt # NoTime

\* The raw identity columns of a row and the three derived from them.
IdentityColumns(r) ==
  <<r.email, r.website, r.contactName,
    r.normalizedEmail, r.normalizedDomain, r.normalizedContactName>>

\* The derived columns of a row are the normalisers applied to its raw ones.
DerivedFromRaw(r) ==
  /\ r.normalizedEmail = normalizeEmail(r.email)
  /\ r.normalizedDomain = extractDomainFromWebsiteOrEmail(r.website, r.email)
  /\ r.normalizedContactName = normalizeName(r.contactName)

\* C24: in every state the normalizedEmail, normalizedDomain and
\* normalizedContactName of each row are the normalisers applied to the
\* row's email, website and contactName, and no step changes any of the six
\* columns of a row that stays.
C24_DerivedFields ==
  /\ [](\A r \in prospects : DerivedFromRaw(r))
  /\ [][\A r \in prospects : \A after \in RowAfter(r.id) :
           IdentityColumns(after) = IdentityColumns(r)]_vars

\* The table holds a row whose normalizedEmail differs from its email and
\* one whose normalizedDomain comes from its website, one of them archived
\* and patched since.
C24_Witness ==
  /\ \E r \in prospects :
       r.email = CandAnnPadded.email /\ r.normalizedEmail = CandAnn.email
  /\ \E r \in prospects :
       /\ r.website = CandNoEmail.website /\ r.normalizedDomain = <<"b", ".", "c">>
       /\ r.archivedAt # NoTime /\ r.status = Contacted

\* C25: whatever restores run beside it, the DELETE statement of a delete
\* request removes a row only if the row's archivedAt is non-null at that
\* moment.
C25_DeleteOnlyArchived ==
  [][\A c \in Clients :
       DeleteRun(c) => \A r \in prospects \ prospects' : r.archivedAt # NoTime]_vars

\* C26: the INSERT of a single create is a step of its own that adds its
\* row whatever the table has come to hold since the lookup, so that two
\* creates of one email can both pass the lookup and both insert.
C26_CreateInsertUnguarded ==
  [][\A c \in Clients :
       CreateInsert(c) =>
         /\ Cardinality(prospects') = Cardinality(prospects) + 1
         /\ \E p \in Pending(c) : \E r \in Inserted :
              r.normalizedEmail = NormalizedEmailOf(p.payload[1])]_vars

\* Two single creates have both been answered 201 and have left two rows
\* with one normalizedEmail.
C26_Witness ==
  /\ inflight = {}
  /\ resp.op = "create" /\ resp.code = 201
  /\ \E r1 \in prospects : \E r2 \in prospects \ {r1} :
       SameEmail(r1, r2) /\ r1.origin = Manual /\ r2.origin = Manual

\* C27: in every state, for every request body with a company name, a
\* contact name or an email, the single create finds no existing row exactly
\* when a bulk import of that body alone admits it.
C27_ResolversAgree ==
  \A raw \in IntakeCandidates :
    hasIdentifier(raw) =>
      ((checkDuplicateProspect(prospects, NormalizedEmailOf(raw),
          NormalizedDomainOf(raw), NormalizedContactNameOf(raw)) = {})
       <=> (ValidIndices(prospects, <<raw>>) # <<>>))

\* Request body raw carries the email of row r, or its domain and contact
\* name.
MatchesRow(raw, r) ==
  \/ Truthy(NormalizedEmailOf(raw)) /\ r.normalizedEmail = NormalizedEmailOf(raw)
  \/ /\ Truthy(NormalizedDomainOf(raw)) /\ Truthy(NormalizedContactNameOf(raw))
     /\ r.normalizedDomain = NormalizedDomainOf(raw)
     /\ r.normalizedContactName = NormalizedContactNameOf(raw)

Taken(table, raw) == \E r \in table : MatchesRow(raw, r)

\* C28: while a row exists, archived or not, suppressed or not, the single
\* create finds a duplicate for every body matching the row and answers 409
\* without inserting, and a bulk import of that body admits nothing; a body
\* that matched a row matches none afterwards only after a delete answered
\* 200.
C28_IdentityHeldUntilDelete ==
  /\ [](\A raw \in Candidates :
         Taken(prospects, raw) =>
           /\ checkDuplicateProspect(prospects, NormalizedEmailOf(raw),
                NormalizedDomainOf(raw), NormalizedContactNameOf(raw)) # {}
           /\ ValidIndices(prospects, <<raw>>) = <<>>)
  /\ [][\A raw \in Candidates :
         /\ (Taken(prospects, raw) /\ CreateProspect(raw)) =>
              (resp'.code = 409 /\ prospects' = prospects)
         /\ (Taken(prospects, raw) /\ \E sourceId \in Sources :
                                        BulkImport(sourceId, <<raw>>)) =>
              (resp'.code = 400 /\ prospects' = prospects)
         /\ (Taken(prospects, raw) /\ ~Taken(prospects', raw)) =>
              (resp'.op = "delete" /\ resp'.code = 200)]_vars

\* A single create answered 409 against a row that is archived and not
\* suppressed.
C28_Witness ==
  /\ resp.op = "create" /\ resp.code = 409
  /\ \E r \in prospects :
       /\ r.id = resp.existingId
       /\ r.archivedAt # NoTime
       /\ r.suppressedAt = NoTime

\* Request body raw has neither an email key nor a domain+name key.
Keyless(raw) ==
  /\ ~Truthy(NormalizedEmailOf(raw))
  /\ ~(Truthy(NormalizedDomainOf(raw)) /\ Truthy(NormalizedContactNameOf(raw)))

\* The rows of a payload that have no key and a company name, contact name
\* or email.
KeylessIdentified(payload) ==
  {i \in 1..Len(payload) : Keyless(payload[i]) /\ hasIdentifier(payload[i])}

\* C29: a single create of a body without keys, also of one with no
\* identifying field, is answered 201 and inserts one row; a bulk import
\* admits every row without keys that has a company name, contact name or
\* email, identical rows of one payload included, and inserts them.
C29_KeylessNeverDuplicate ==
  [][/\ \A raw \in IntakeCandidates :
          (Keyless(raw) /\ CreateProspect(raw)) =>
            (resp'.code = 201 /\ Cardinality(Inserted) = 1)
     /\ \A sourceId \in Sources, payload \in IntakePayloads :
          (KeylessIdentified(payload) # {} /\ BulkImport(sourceId, payload)) =>
            /\ resp'.code = 201
            /\ \A i \in KeylessIdentified(payload) :
                 \E k \in 1..Len(ValidIndices(prospects, payload)) :
                   /\ ValidIndices(prospects, payload)[k] = i
                   /\ InsertedFor(k) # {}]_vars

\* A bulk import has been answered 201 with two rows that came from two
\* identical payload rows carrying a company name only.
C29_Witness ==
  /\ resp.op = "bulk" /\ resp.code = 201
  /\ \E r1 \in prospects : \E r2 \in prospects \ {r1} :
       /\ {r1.id, r2.id} \subseteq resp.inserted
       /\ r1.companyName = CandCompanyOnly.companyName
       /\ r2.companyName = CandCompanyOnly.companyName
       /\ r1.normalizedEmail = Null /\ r2.normalizedEmail = Null
       /\ r1.normalizedContactName = Null /\ r2.normalizedContactName = Null

\* The query with the given archived and suppressed parameters and no
\* other filter.
FlagQuery(archived, suppressed) ==
  [archived |-> archived, suppressed |-> suppressed,
   status |-> Null, sourceId |-> Null]

\* The combinations of archived=1 and suppressed=1, each sent or not, under
\* which GET /prospects returns row r.
ListedUnder(r) ==
  {f \in {Null, <<"1">>} \X {Null, <<"1">>} :
     r \in ListProspects(prospects, FlagQuery(f[1], f[2]))}

\* C30: in every state each prospect is returned, other filters absent, by
\* exactly one of the four combinations of archived=1 and suppressed=1 sent
\* or not: the one that has archived=1 exactly when the row is archived and
\* suppressed=1 exactly when it is suppressed.
C30_FlagsPartition ==
  \A r \in prospects :
    ListedUnder(r) =
      {<<IF r.archivedAt # NoTime THEN <<"1">> ELSE Null,
         IF r.suppressedAt # NoTime THEN <<"1">> ELSE Null>>}

\* Two prospects in opposite cells: one archived and suppressed, returned
\* with both flags, and one neither, returned by the plain list.
C30_Witness ==
  /\ \E r \in ListProspects(prospects, FlagQuery(<<"1">>, <<"1">>)) :
       r.archivedAt # NoTime /\ r.suppressedAt # NoTime
  /\ ListProspects(prospects, FlagQuery(Null, Null)) # {}

====
